---- MODULE Spec2Model ----
(***************************************************************************)
(* DeskAgent: the automation orchestration loop of src/app.py              *)
(* (run_automation_flow), the confirmation gate of main_page, and the      *)
(* adapters they call (LLMHandler, RAGHandler, DesktopController,          *)
(* ocr_helper).  Text is modelled as sequences of one-character strings so *)
(* that lower(), upper(), strip() and the substring test are computed as   *)
(* Python computes them.                                                   *)
(***************************************************************************)
EXTENDS Integers, Sequences, FiniteSets, TLC

(* ----------------------------- bounds --------------------------------- *)

\* Number of times the user presses "Run Automation" in one behaviour.
MaxRuns == 2

\* Largest max_retries value a config.json of the model defines explicitly.
MaxCfgRetries == 2

\* Examples in the JSON file given to build_rag_from_json.
MaxExamples == 2

\* Presses of "Run Automation" in a behaviour checked for termination.
MaxLiveRuns == 1

(* ------------------------- program constants -------------------------- *)

\* config.get('max_retries', 3)
DefaultRetries == 3

\* retrieve_similar_examples(..., top_k: int = 2)
TopK == 2

(* ------------------------------- text --------------------------------- *)

\* str.lower() on one character (the letters the model's texts use).
LowerChar(c) ==
    CASE c = "T" -> "t" [] c = "Y" -> "y" [] c = "P" -> "p" [] c = "E" -> "e"
      [] c = "H" -> "h" [] c = "I" -> "i" [] c = "O" -> "o" [] c = "N" -> "n"
      [] c = "S" -> "s" [] c = "U" -> "u" [] c = "C" -> "c" [] c = "F" -> "f"
      [] c = "A" -> "a" [] c = "L" -> "l" [] c = "R" -> "r"
      [] OTHER -> c

\* str.upper() on one character.
UpperChar(c) ==
    CASE c = "t" -> "T" [] c = "y" -> "Y" [] c = "p" -> "P" [] c = "e" -> "E"
      [] c = "h" -> "H" [] c = "i" -> "I" [] c = "o" -> "O" [] c = "n" -> "N"
      [] c = "s" -> "S" [] c = "u" -> "U" [] c = "c" -> "C" [] c = "f" -> "F"
      [] c = "a" -> "A" [] c = "l" -> "L" [] c = "r" -> "R"
      [] OTHER -> c

Lower(s) == [i \in 1..Len(s) |-> LowerChar(s[i])]

Upper(s) == [i \in 1..Len(s) |-> UpperChar(s[i])]

IsSpace(c) == c \in {" ", "\n"}

RECURSIVE LStrip(_)
LStrip(s) == IF s # <<>> /\ IsSpace(Head(s)) THEN LStrip(Tail(s)) ELSE s

RECURSIVE RStrip(_)
RStrip(s) ==
    IF s # <<>> /\ IsSpace(s[Len(s)]) THEN RStrip(SubSeq(s, 1, Len(s) - 1)) ELSE s

\* str.strip()
Strip(s) == RStrip(LStrip(s))

\* Python's `needle in hay` on strings.
Contains(hay, needle) ==
    \E i \in 0..(Len(hay) - Len(needle)) : SubSeq(hay, i + 1, i + Len(needle)) = needle

(* --------------------------- input domains ---------------------------- *)

\* "Type hi": a typing instruction whose payload is the literal "hi".
CmdType == <<"T", "y", "p", "e", " ", "h", "i">>

\* "Open": an instruction without a typing keyword.
CmdOpen == <<"O", "p", "e", "n">>

\* The instructions the user submits (a non-empty text: app.py line 291).
Commands == {CmdType, CmdOpen}

\* The keyword list of app.py line 191; the third keyword is the two-character
\* Japanese word, written here as two one-character tokens.
TypingKeywords ==
    {<<"t", "y", "p", "e">>, <<"e", "n", "t", "e", "r">>, <<"nyuu", "ryoku">>}

\* An argument of a call node: a string literal, another expression, or none.
StrArg(s) == [kind |-> "Str", s |-> s]

NameArg == [kind |-> "Name", s |-> <<>>]

\* A call node `id.attr(arg, ...)` of the syntax tree, in ast.walk order.
CallNode(id, attr, arg) == [id |-> id, attr |-> attr, arg |-> arg]

\* The empty string returned when generation fails.
EmptyCode == [empty |-> TRUE, parses |-> TRUE, calls |-> <<>>]

\* pyperclip.copy("hi"); pyautogui.hotkey('ctrl', 'v')
CodeCopy ==
    [empty |-> FALSE, parses |-> TRUE,
     calls |-> <<CallNode("pyperclip", "copy", StrArg(<<"h", "i">>)),
                 CallNode("pyautogui", "hotkey", StrArg(<<"c", "t", "r", "l">>))>>]

\* pyperclip.copy(text_to_type); pyautogui.typewrite(text_to_type): calls
\* without a literal argument.
CodeVar ==
    [empty |-> FALSE, parses |-> TRUE,
     calls |-> <<CallNode("pyperclip", "copy", NameArg),
                 CallNode("pyautogui", "typewrite", NameArg)>>]

\* Text that is not Python: ast.parse raises SyntaxError.
CodeBad == [empty |-> FALSE, parses |-> FALSE, calls |-> <<>>]

\* What the operation model answers to a generation request (after the fence
\* stripping of llm_handler.py lines 116-120); EmptyCode is a blank answer.
GenResponses == {CodeCopy, CodeVar, CodeBad, EmptyCode}

\* Text blocks read from the after-image (bounding boxes and confidences dropped).
OcrResults ==
    {<<<<"o", "k">>, <<"h", "i", " ", "w">>>>,
     <<<<"H", "I">>>>}

\* The token evaluate_operation looks for.
SUCCESS == <<"S", "U", "C", "C", "E", "S", "S">>

\* Raw answers of the evaluation model.
JudgeResponses ==
    {<<" ", "s", "u", "c", "c", "e", "s", "s", "\n">>,
     <<"F", "A", "I", "L", "U", "R", "E">>}

\* Answers of the operation model to an abstraction request, before strip().
AbstractResponses == {<<"D", "o", " ", "i", "t", "\n">>}

\* Contents of script_error.log when the crash check reads it.
ErrorLogContents == {<<>>, <<" ", "\n">>, <<"E", "r", "r">>}

\* What config.json says about max_retries: no such key, or a value.
ConfigRetries ==
    {[has |-> FALSE, value |-> 0]} \cup {[has |-> TRUE, value |-> n] : n \in 1..MaxCfgRetries}

(* -------------------------------- files ------------------------------- *)

NoFile == [kind |-> "none", id |-> <<0, 0>>]

\* A save_screenshot that names the file by its prefix alone: every image of
\* a kind goes to the same file.
ShotFileFixedName(prefix, run, iteration) == [kind |-> prefix, id |-> <<0, 0>>]

\* save_screenshot: "<prefix>_<timestamp>.png".  Every call has its own
\* timestamp; the model writes it as the pair (run, iteration) of the call.
ShotFile(prefix, run, iteration) == [kind |-> prefix, id |-> <<run, iteration>>]

ScriptFile == [kind |-> "temp_automation_script.py", id |-> <<0, 0>>]

ErrorLog == [kind |-> "script_error.log", id |-> <<0, 0>>]

OutputLog == [kind |-> "script_output.log", id |-> <<0, 0>>]

\* The set of the elements of a sequence.
Range(s) == {s[i] : i \in 1..Len(s)}

(* ------------------------------- state -------------------------------- *)

VARIABLES
    handler,                    \* which generate_automation_code the call of app.py reaches
    pc,                         \* the step run_automation_flow is at; "idle" between runs
    runs,                       \* presses of "Run Automation" so far
    command,                    \* run_automation_flow: command
    max_retries,                \* run_automation_flow: max_retries
    operation_successful,       \* run_automation_flow: operation_successful
    final_code,                 \* run_automation_flow: final_code
    generated_code,             \* run_automation_flow: generated_code
    launched,                   \* the code the iteration gave to execute_code
    abstract_prompt,            \* run_automation_flow: abstract_prompt
    attempt,                    \* the loop variable of line 114
    before_screenshot_path,     \* run_automation_flow: before_screenshot_path
    after_screenshot_path,      \* run_automation_flow: after_screenshot_path
    rag_examples,               \* run_automation_flow: rag_examples
    logs,                       \* st.session_state.logs, one tag per message: the part
                                \* appended since the current loop iteration began
    validation_pending,         \* st.session_state.validation_pending
    abstract_prompt_for_saving, \* st.session_state.abstract_prompt_for_saving
    screenshots_to_cleanup,     \* st.session_state.screenshots_to_cleanup
    fs,                         \* the files that exist
    kb,                         \* the documents of the vector index
    outcome,                    \* how the last run ended: none, pending, failed, aborted
    attemptsStarted,            \* loop iterations entered by the current run
    successAt,                  \* iteration (1-based) that got a Success verdict, 0 if none
    launches,                   \* processes started by the current run
    abstractions,               \* calls of abstract_user_prompt by the current run
    process,                    \* execute_code: the process last started by the current
                                \* run: none, running, exited
    codeGenerated,              \* some generation of the current run returned code
    kbInserts,                  \* calls of add_successful_automation since the last Run
    lastUser,                   \* the last button: none, run, confirm, reject
    cleaned,                    \* the last cleanup_temp_files call of the current run
    verification,               \* what step 7 of the current iteration did
    build_pc,                   \* build_rag_from_json: off (not run), loop, done
    examples,                   \* build_rag_from_json: examples
    example_index               \* build_rag_from_json: examples processed so far

locals ==
    <<command, max_retries, operation_successful, final_code, generated_code, launched,
      abstract_prompt, attempt, before_screenshot_path, after_screenshot_path,
      rag_examples>>

session ==
    <<logs, validation_pending, abstract_prompt_for_saving, screenshots_to_cleanup>>

world == <<fs, kb>>

history ==
    <<outcome, attemptsStarted, successAt, launches, process, abstractions,
      codeGenerated, kbInserts, lastUser, cleaned, verification>>

build == <<build_pc, examples, example_index>>

vars == <<handler, pc, runs, locals, session, world, history, build>>

\* st.session_state.validation_pending = None
NoPending == [set |-> FALSE, prompt |-> <<>>, code |-> EmptyCode]

\* A pending record that keeps the instruction and loses the code.
PendingWithoutCode(prompt, code) == [set |-> TRUE, prompt |-> prompt, code |-> EmptyCode]

Pending(prompt, code) == [set |-> TRUE, prompt |-> prompt, code |-> code]

NotCleaned == [called |-> FALSE, files |-> <<>>]

\* An adapter call's result: a value, or an exception of some class.
Returned(v) == [raised |-> "no", value |-> v]

Raised(class) == [raised |-> class, value |-> <<>>]

NoText == [found |-> FALSE, s |-> <<>>]

\* The record of one verification: the strategy that gave the verdict (literal,
\* judge, or none), the literal extracted from the code, what text detection
\* and the judge returned where they were asked, and the verdict (success,
\* failure, raised when an exception left the step, none before the step).
Verification(typing, strategy, literal, ocr, judge, verdict) ==
    [typing |-> typing, strategy |-> strategy, literal |-> literal, ocr |-> ocr,
     judge |-> judge, verdict |-> verdict]

NotAsked == Raised("not asked")

NoVerification == Verification(FALSE, "none", NoText, NotAsked, NotAsked, "none")

\* A document of the index: text is the abstract prompt, the rest its metadata.
Document(abstract, original, code) ==
    [text |-> abstract, original_prompt |-> original, python_code |-> code]

Init ==
    /\ handler \in {"src", "cdp"}
    /\ pc = "idle"
    /\ runs = 0
    /\ command = <<>>
    /\ max_retries = 0
    /\ operation_successful = FALSE
    /\ final_code = EmptyCode
    /\ generated_code = EmptyCode
    /\ launched = EmptyCode
    /\ abstract_prompt = <<>>
    /\ attempt = 0
    /\ before_screenshot_path = NoFile
    /\ after_screenshot_path = NoFile
    /\ rag_examples = <<>>
    /\ logs = <<>>
    /\ validation_pending = NoPending
    /\ abstract_prompt_for_saving = <<>>
    /\ screenshots_to_cleanup = <<>>
    /\ fs = {}
    /\ kb = <<>>
    /\ outcome = "none"
    /\ attemptsStarted = 0
    /\ successAt = 0
    /\ launches = 0
    /\ abstractions = 0
    /\ process = "none"
    /\ codeGenerated = FALSE
    /\ kbInserts = 0
    /\ lastUser = "none"
    /\ cleaned = NotCleaned
    /\ verification = NoVerification
    /\ build_pc = "off"
    /\ examples = <<>>
    /\ example_index = 0

\* A document stored by an earlier confirmation of the instruction "Open", and
\* a document of the index whose metadata has no code.
StoredDocument == Document(<<"D", "o", " ", "i", "t">>, CmdOpen, CodeVar)

StoredDocumentWithoutCode == Document(<<"D", "o", " ", "i", "t">>, CmdOpen, EmptyCode)

\* What load_index_from_storage finds in vector_db when the application
\* starts: nothing (a new index is created), or an index of four documents.
StoredIndexes ==
    {<<>>,
     <<StoredDocument, StoredDocument, StoredDocumentWithoutCode, StoredDocument>>}

\* The application started on a vector_db directory left by earlier use.
InitSeeded ==
    /\ handler \in {"src", "cdp"}
    /\ pc = "idle"
    /\ runs = 0
    /\ command = <<>>
    /\ max_retries = 0
    /\ operation_successful = FALSE
    /\ final_code = EmptyCode
    /\ generated_code = EmptyCode
    /\ launched = EmptyCode
    /\ abstract_prompt = <<>>
    /\ attempt = 0
    /\ before_screenshot_path = NoFile
    /\ after_screenshot_path = NoFile
    /\ rag_examples = <<>>
    /\ logs = <<>>
    /\ validation_pending = NoPending
    /\ abstract_prompt_for_saving = <<>>
    /\ screenshots_to_cleanup = <<>>
    /\ fs = {}
    /\ kb \in StoredIndexes
    /\ outcome = "none"
    /\ attemptsStarted = 0
    /\ successAt = 0
    /\ launches = 0
    /\ abstractions = 0
    /\ process = "none"
    /\ codeGenerated = FALSE
    /\ kbInserts = 0
    /\ lastUser = "none"
    /\ cleaned = NotCleaned
    /\ verification = NoVerification
    /\ build_pc = "off"
    /\ examples = <<>>
    /\ example_index = 0

(* --------------------------- pure functions --------------------------- *)

\* config.get('max_retries', 3)
MaxRetriesOf(cfg) == IF cfg.has THEN cfg.value ELSE DefaultRetries

\* An abstraction with nothing to fall back on: no key when the call raises.
AbstractUserPromptNoFallback(user_prompt, response) ==
    IF response.raised # "no" THEN <<>> ELSE Strip(response.value)

\* LLMHandler.abstract_user_prompt: the stripped answer, or the prompt itself
\* when the call raises.
AbstractUserPrompt(user_prompt, response) ==
    IF response.raised # "no" THEN user_prompt ELSE Strip(response.value)

\* LLMHandler.generate_automation_code: the code of the answer, or "" when the
\* call raises.
GenerateAutomationCode(response) ==
    IF response.raised # "no" THEN EmptyCode ELSE response.value

\* A judge that looks for the word as written, without upper-casing the answer.
EvaluateOperationExact(response) ==
    IF response.raised # "no" THEN FALSE
    ELSE Contains(Strip(response.value), SUCCESS)

\* LLMHandler.evaluate_operation: "SUCCESS" in response.strip().upper(), and
\* False when the call raises.
EvaluateOperation(response) ==
    IF response.raised # "no" THEN FALSE
    ELSE Contains(Upper(Strip(response.value)), SUCCESS)

\* The parameters generate_automation_code declares, and the keywords the call
\* of app.py passes by name.
GenerateParameters(h) ==
    {"user_prompt", "screen_size", "screenshot_path", "rag_examples"}
        \cup (IF h = "cdp" THEN {"cdp_url"} ELSE {})

GenerateCallKeywords == {"cdp_url"}

\* Python binds a call only if every keyword names a parameter (else TypeError).
GenerateCallBinds(h) == GenerateCallKeywords \subseteq GenerateParameters(h)

\* A keyword scan of the instruction as written, without lower().
IsTypingTaskCaseSensitive(cmd) == \E k \in TypingKeywords : Contains(cmd, k)

\* any(keyword in command.lower() for keyword in [...])
IsTypingTask(cmd) == \E k \in TypingKeywords : Contains(Lower(cmd), k)

\* The two call shapes the walk accepts: pyperclip.copy('...') and
\* pyautogui.typewrite('...') with a string literal as first argument.
IsLiteralCall(n) ==
    \/ n.attr = "copy" /\ n.id = "pyperclip" /\ n.arg.kind = "Str"
    \/ n.attr = "typewrite" /\ n.id = "pyautogui" /\ n.arg.kind = "Str"

\* The walk over the syntax tree: the literal of the first accepted call.
RECURSIVE ExtractText(_)
ExtractText(calls) ==
    IF calls = <<>> THEN NoText
    ELSE IF IsLiteralCall(Head(calls)) THEN [found |-> TRUE, s |-> Head(calls).arg.s]
    ELSE ExtractText(Tail(calls))

\* `text_to_find in text` of the loop over the after-image's text blocks.
TextMatches(text_to_find, text) == Contains(text, text_to_find)

FoundText(text_to_find, ocr_results) ==
    \E i \in 1..Len(ocr_results) : TextMatches(text_to_find, ocr_results[i])

\* A removal without the existence test and without the try: os.remove on a
\* file that is not there raises.
RemoveFileUnguarded(file_path, fsNow) ==
    [fs |-> fsNow \ {file_path}, raised |-> file_path \notin fsNow]

\* The body of the loop of cleanup_temp_files (lines 80-85): the file is
\* removed if it exists; nothing leaves the try.
RemoveFile(file_path, fsNow) ==
    [fs |-> IF file_path \in fsNow THEN fsNow \ {file_path} ELSE fsNow,
     raised |-> FALSE]

\* cleanup_temp_files, file by file: the files left, and whether an exception
\* left the loop.
RECURSIVE CleanupTempFiles(_, _)
CleanupTempFiles(files, fsNow) ==
    IF files = <<>> THEN [fs |-> fsNow, raised |-> FALSE]
    ELSE LET r == RemoveFile(Head(files), fsNow)
         IN  IF r.raised THEN r ELSE CleanupTempFiles(Tail(files), r.fs)

\* cleanup_temp_files: the files left, and the messages logged.
CleanupFs(files, fsNow) == CleanupTempFiles(files, fsNow).fs

RECURSIVE DeletedLogs(_, _)
DeletedLogs(files, fsNow) ==
    IF files = <<>> THEN <<>>
    ELSE IF Head(files) \in fsNow
         THEN <<"Deleted">> \o DeletedLogs(Tail(files), fsNow \ {Head(files)})
         ELSE DeletedLogs(Tail(files), fsNow)

CleanupLogs(files, fsNow) == <<"Cleaning up">> \o DeletedLogs(files, fsNow)

\* A retrieval that turns every node into an example, whatever its metadata.
RECURSIVE ExamplesOfUnfiltered(_)
ExamplesOfUnfiltered(nodes) ==
    IF nodes = <<>> THEN <<>>
    ELSE LET n == Head(nodes) IN
         <<[prompt |-> n.original_prompt, code |-> n.python_code]>>
            \o ExamplesOfUnfiltered(Tail(nodes))

\* RAGHandler.retrieve_similar_examples on the nodes the retriever returns.
RECURSIVE ExamplesOf(_)
ExamplesOf(nodes) ==
    IF nodes = <<>> THEN <<>>
    ELSE LET n == Head(nodes) IN
         (IF ~n.python_code.empty /\ n.original_prompt # <<>>
          THEN <<[prompt |-> n.original_prompt, code |-> n.python_code]>>
          ELSE <<>>) \o ExamplesOf(Tail(nodes))

\* The nodes at the positions I of the index, in index order.
RECURSIVE PickNodes(_, _)
PickNodes(docs, I) ==
    IF I = {} THEN <<>>
    ELSE LET m == CHOOSE x \in I : \A y \in I : x <= y
         IN  <<docs[m]>> \o PickNodes(docs, I \ {m})

\* The node lists a retriever with similarity_top_k = top_k can return.
RetrievedNodes(docs, top_k) ==
    {PickNodes(docs, I) : I \in {J \in SUBSET (1..Len(docs)) : Cardinality(J) <= top_k}}

(* ------------------------- control-flow helpers ----------------------- *)

\* The locals of run_automation_flow cease to exist when it returns.
Return ==
    /\ pc' = "idle"
    /\ command' = <<>>
    /\ max_retries' = 0
    /\ operation_successful' = FALSE
    /\ final_code' = EmptyCode
    /\ generated_code' = EmptyCode
    /\ launched' = EmptyCode
    /\ abstract_prompt' = <<>>
    /\ attempt' = 0
    /\ before_screenshot_path' = NoFile
    /\ after_screenshot_path' = NoFile
    /\ rag_examples' = <<>>

\* A loop test that lets one iteration more through.
LoopGuardInclusive(a, m) == a <= m

\* The test of `for attempt in range(max_retries)`.
LoopGuard(a, m) == a < m

\* A retry that goes back to the head of the loop with the same value of
\* attempt: the failed iteration is not counted.
ContinueSameAttempt ==
    /\ pc' = "loop"
    /\ attempt' = attempt
    /\ generated_code' = EmptyCode
    /\ launched' = EmptyCode
    /\ final_code' = EmptyCode
    /\ rag_examples' = <<>>
    /\ before_screenshot_path' = NoFile
    /\ after_screenshot_path' = NoFile

\* `continue`, and the end of the loop body: back to the head of the loop for
\* the next value of attempt.  What the iteration assigned to generated_code,
\* final_code, rag_examples and the two image paths is not read again: the
\* next iteration assigns each of them before it reads it, and step 8 reads
\* final_code only after a `break`.  The model keeps no value for them here.
Continue ==
    /\ pc' = "loop"
    /\ attempt' = attempt + 1
    /\ generated_code' = EmptyCode
    /\ launched' = EmptyCode
    /\ final_code' = EmptyCode
    /\ rag_examples' = <<>>
    /\ before_screenshot_path' = NoFile
    /\ after_screenshot_path' = NoFile

\* What a step that stays inside run_automation_flow leaves alone besides its
\* own assignments.
Stay == UNCHANGED <<cleaned, outcome, validation_pending>>

\* A handler that reports the error and returns without cleaning up.
AbortWithoutCleanup(logsNow, tracked, fsNow) ==
    /\ logs' = logsNow \o <<"[ERROR] A critical error occurred">>
    /\ screenshots_to_cleanup' = tracked
    /\ fs' = fsNow
    /\ cleaned' = cleaned
    /\ outcome' = "aborted"
    /\ validation_pending' = validation_pending
    /\ Return

\* The handler of `except Exception` (lines 270-275): report the error, clean
\* up what is tracked, return.  logsNow, tracked and fsNow are the log, the
\* tracking list and the files as the failing step left them.
Abort(logsNow, tracked, fsNow) ==
    /\ logs' = logsNow \o <<"[ERROR] A critical error occurred">>
                       \o CleanupLogs(tracked, fsNow)
    /\ screenshots_to_cleanup' = tracked
    /\ fs' = CleanupFs(tracked, fsNow)
    /\ cleaned' = [called |-> TRUE, files |-> tracked]
    /\ outcome' = "aborted"
    /\ validation_pending' = validation_pending
    /\ Return

\* A step 8 that calls the cleanup on success as well as on failure.
FinishCleaningUp(successful, logsNow) ==
    /\ IF successful
       THEN /\ validation_pending' = Pending(command, final_code)
            /\ outcome' = "pending"
            /\ logs' = logsNow \o CleanupLogs(screenshots_to_cleanup, fs)
       ELSE /\ logs' = Append(logsNow, "[ERROR] Automation failed after all retries")
                         \o CleanupLogs(screenshots_to_cleanup, fs)
            /\ outcome' = "failed"
            /\ UNCHANGED validation_pending
    /\ fs' = CleanupFs(screenshots_to_cleanup, fs)
    /\ cleaned' = [called |-> TRUE, files |-> screenshots_to_cleanup]
    /\ UNCHANGED screenshots_to_cleanup
    /\ Return

\* A step 8 that reports the failure and returns without calling the cleanup.
FinishKeepingFiles(successful, logsNow) ==
    /\ IF successful
       THEN /\ validation_pending' = Pending(command, final_code)
            /\ outcome' = "pending"
            /\ logs' = logsNow
       ELSE /\ logs' = Append(logsNow, "[ERROR] Automation failed after all retries")
            /\ outcome' = "failed"
            /\ UNCHANGED validation_pending
    /\ UNCHANGED <<screenshots_to_cleanup, fs, cleaned>>
    /\ Return

\* Step 8 (lines 262-268), reached by `break` or when the loop is exhausted:
\* the pending record on success, else the failure report and the cleanup;
\* then run_automation_flow returns.
Finish(successful, logsNow) ==
    /\ IF successful
       THEN /\ validation_pending' = Pending(command, final_code)
            /\ outcome' = "pending"
            /\ logs' = logsNow
            /\ UNCHANGED <<fs, cleaned>>
       ELSE /\ logs' = Append(logsNow, "[ERROR] Automation failed after all retries")
                         \o CleanupLogs(screenshots_to_cleanup, fs)
            /\ fs' = CleanupFs(screenshots_to_cleanup, fs)
            /\ cleaned' = [called |-> TRUE, files |-> screenshots_to_cleanup]
            /\ outcome' = "failed"
            /\ UNCHANGED validation_pending
    /\ UNCHANGED screenshots_to_cleanup
    /\ Return

\* A success that sets the flag and falls through to the end of the loop body
\* instead of leaving the loop.
BreakIgnored(successful, logsNow) ==
    /\ operation_successful' = successful
    /\ logs' = logsNow
    /\ pc' = "loop"
    /\ attempt' = attempt + 1
    /\ Stay
    /\ UNCHANGED <<command, max_retries, final_code, generated_code, launched,
                   abstract_prompt, before_screenshot_path, after_screenshot_path,
                   rag_examples, screenshots_to_cleanup, fs>>

\* `break` (lines 238, 248, 258): out of the retry loop, on to step 8.
Break(successful, logsNow) == Finish(successful, logsNow)

(* ------------------------------ actions ------------------------------- *)

\* A "Run Automation" that starts the run without clearing the pending record
\* of the run before.
RunAutomationKeepingPending(cmd) ==
    /\ pc = "idle"
    /\ runs < MaxRuns
    /\ cmd # <<>>
    /\ runs' = runs + 1
    /\ logs' = <<"Received command">>
    /\ validation_pending' = validation_pending
    /\ screenshots_to_cleanup' = <<>>
    /\ command' = cmd
    /\ pc' = "init"
    /\ outcome' = "none"
    /\ attemptsStarted' = 0
    /\ successAt' = 0
    /\ launches' = 0
    /\ abstractions' = 0
    /\ process' = "none"
    /\ codeGenerated' = FALSE
    /\ kbInserts' = 0
    /\ lastUser' = "run"
    /\ cleaned' = NotCleaned
    /\ verification' = NoVerification
    /\ UNCHANGED <<build, handler, max_retries, operation_successful, final_code,
                   generated_code, launched, abstract_prompt, attempt, before_screenshot_path,
                   after_screenshot_path, rag_examples, abstract_prompt_for_saving,
                   world>>

\* main_page, "Run Automation" pressed with a non-empty command (lines
\* 290-298), and the entry of run_automation_flow (lines 92-95).
RunAutomation(cmd) ==
    /\ pc = "idle"
    /\ runs < MaxRuns
    /\ cmd # <<>>
    /\ runs' = runs + 1
    /\ logs' = <<"Received command">>
    /\ validation_pending' = NoPending
    /\ screenshots_to_cleanup' = <<>>
    /\ command' = cmd
    /\ pc' = "init"
    /\ outcome' = "none"
    /\ attemptsStarted' = 0
    /\ successAt' = 0
    /\ launches' = 0
    /\ abstractions' = 0
    /\ process' = "none"
    /\ codeGenerated' = FALSE
    /\ kbInserts' = 0
    /\ lastUser' = "run"
    /\ cleaned' = NotCleaned
    /\ verification' = NoVerification
    /\ UNCHANGED <<build, handler, max_retries, operation_successful, final_code,
                   generated_code, launched, abstract_prompt, attempt, before_screenshot_path,
                   after_screenshot_path, rag_examples, abstract_prompt_for_saving,
                   world>>

\* Step 1 (lines 99-106): the config is read and the handlers are built; any
\* of these calls may raise.
Initialize ==
    /\ pc = "init"
    /\ \E ok \in BOOLEAN, cfg \in ConfigRetries :
         IF ok
         THEN /\ logs' = Append(logs, "Initializing handlers")
              /\ max_retries' = MaxRetriesOf(cfg)
              /\ operation_successful' = FALSE
              /\ final_code' = EmptyCode
              /\ pc' = "abstract"
              /\ Stay
              /\ UNCHANGED <<command, generated_code, launched, abstract_prompt, attempt,
                             before_screenshot_path, after_screenshot_path,
                             rag_examples, screenshots_to_cleanup, fs>>
         ELSE Abort(Append(logs, "Initializing handlers"), screenshots_to_cleanup, fs)
    /\ UNCHANGED <<build, handler, runs, abstract_prompt_for_saving, kb, attemptsStarted,
                   successAt, launches, process, abstractions, codeGenerated, kbInserts, lastUser, verification>>

\* A step 2 that computes the abstract prompt and does not store it in the
\* session state.
AbstractNotStored ==
    /\ pc = "abstract"
    /\ \E response \in {Returned(r) : r \in AbstractResponses} \cup {Raised("Exception")} :
         abstract_prompt' = AbstractUserPrompt(command, response)
    /\ abstractions' = abstractions + 1
    /\ logs' = logs \o <<"Generalizing user command", "Generalized command">>
    /\ attempt' = 0
    /\ pc' = "loop"
    /\ UNCHANGED <<build, handler, runs, command, max_retries, operation_successful,
                   final_code, generated_code, launched, before_screenshot_path,
                   after_screenshot_path, rag_examples, validation_pending,
                   abstract_prompt_for_saving, screenshots_to_cleanup, world,
                   outcome, attemptsStarted, successAt, launches, process, codeGenerated,
                   kbInserts, lastUser, cleaned, verification>>

\* Step 2 (lines 108-112): the abstract prompt; abstract_user_prompt catches
\* its own errors.  Then the loop is entered with attempt = 0.
Abstract ==
    /\ pc = "abstract"
    /\ \E response \in {Returned(r) : r \in AbstractResponses} \cup {Raised("Exception")} :
         /\ abstract_prompt' = AbstractUserPrompt(command, response)
         /\ abstract_prompt_for_saving' = AbstractUserPrompt(command, response)
    /\ abstractions' = abstractions + 1
    /\ logs' = logs \o <<"Generalizing user command", "Generalized command">>
    /\ attempt' = 0
    /\ pc' = "loop"
    /\ UNCHANGED <<build, handler, runs, command, max_retries, operation_successful,
                   final_code, generated_code, launched, before_screenshot_path,
                   after_screenshot_path, rag_examples, validation_pending,
                   screenshots_to_cleanup, world, outcome, attemptsStarted,
                   successAt, launches, process, codeGenerated, kbInserts, lastUser, cleaned,
                   verification>>

\* The head of the retry loop (lines 114-115): another iteration, or, the
\* range exhausted, step 8.
LoopHead ==
    /\ pc = "loop"
    /\ IF LoopGuard(attempt, max_retries)
       THEN /\ logs' = <<"--- Attempt">>
            /\ attemptsStarted' = attemptsStarted + 1
            /\ verification' = NoVerification
            /\ pc' = "before"
            /\ Stay
            /\ UNCHANGED <<command, max_retries, operation_successful, final_code,
                           generated_code, launched, abstract_prompt, attempt,
                           before_screenshot_path, after_screenshot_path,
                           rag_examples, screenshots_to_cleanup, fs>>
       ELSE /\ Finish(operation_successful, logs)
            /\ UNCHANGED <<attemptsStarted, verification>>
    /\ UNCHANGED <<build, handler, runs, abstract_prompt_for_saving, kb, successAt,
                   launches, process, abstractions, codeGenerated, kbInserts, lastUser>>

\* Step 3 (lines 117-129): capture and text detection, the image saved and
\* tracked, the detection drawn and shown.
CaptureBefore ==
    /\ pc = "before"
    /\ \E r \in {"ok", "ocr raises", "show raises"} :
         LET logsNow == Append(logs, "Capturing 'before' screen")
             shot    == ShotFile("before", runs, attempt)
         IN  CASE r = "ok" ->
                    /\ logs' = logsNow
                    /\ fs' = fs \cup {shot}
                    /\ before_screenshot_path' = shot
                    /\ screenshots_to_cleanup' = Append(screenshots_to_cleanup, shot)
                    /\ pc' = "rag"
                    /\ Stay
                    /\ UNCHANGED <<command, max_retries, operation_successful,
                                   final_code, generated_code, launched, abstract_prompt,
                                   attempt, after_screenshot_path, rag_examples>>
               [] r = "ocr raises" ->
                    Abort(logsNow, screenshots_to_cleanup, fs)
               [] r = "show raises" ->
                    Abort(logsNow, Append(screenshots_to_cleanup, shot),
                          fs \cup {shot})
    /\ UNCHANGED <<build, handler, runs, abstract_prompt_for_saving, kb, attemptsStarted,
                   successAt, launches, process, abstractions, codeGenerated, kbInserts, lastUser, verification>>

\* Step 4 (lines 131-137): retrieval by the abstract prompt; the retriever is
\* asked only when the index holds documents, and may raise.
RagSearch ==
    /\ pc = "rag"
    /\ \E result \in {Returned(ExamplesOf(n)) : n \in RetrievedNodes(kb, TopK)}
                        \cup {Raised("Exception")} :
         LET logsNow == Append(logs, "Searching for similar successful examples")
         IN  IF result.raised # "no"
             THEN /\ Len(kb) # 0
                  /\ Abort(logsNow, screenshots_to_cleanup, fs)
             ELSE /\ rag_examples' = result.value
                  /\ logs' = Append(logsNow,
                                    IF result.value # <<>>
                                    THEN "[INFO] Found relevant example(s)"
                                    ELSE "[INFO] No similar examples found")
                  /\ pc' = "generate"
                  /\ Stay
                  /\ UNCHANGED <<command, max_retries, operation_successful,
                                 final_code, generated_code, launched, abstract_prompt, attempt,
                                 before_screenshot_path, after_screenshot_path,
                                 screenshots_to_cleanup, fs>>
    /\ UNCHANGED <<build, handler, runs, abstract_prompt_for_saving, kb, attemptsStarted,
                   successAt, launches, process, abstractions, codeGenerated, kbInserts, lastUser, verification>>

\* A step 5 without the test of line 150: whatever generation returned, the
\* empty string included, goes on to step 6.
GenerateWithoutEmptyTest ==
    /\ pc = "generate"
    /\ \E size_ok \in BOOLEAN :
         LET logsNow == Append(logs, "Generating automation code")
         IN  IF ~size_ok
             THEN /\ Abort(logs, screenshots_to_cleanup, fs)
                  /\ UNCHANGED codeGenerated
             ELSE IF ~GenerateCallBinds(handler)
             THEN /\ Abort(logsNow, screenshots_to_cleanup, fs)
                  /\ UNCHANGED codeGenerated
             ELSE \E response \in {Returned(c) : c \in GenResponses}
                                    \cup {Raised("Exception")} :
                    LET code == GenerateAutomationCode(response)
                    IN  /\ generated_code' = code
                        /\ final_code' = code
                        /\ logs' = Append(logsNow, "[SUCCESS] Code Generated")
                        /\ pc' = "execute"
                        /\ Stay
                        /\ codeGenerated' = (codeGenerated \/ ~code.empty)
                        /\ UNCHANGED <<command, max_retries, operation_successful,
                                       launched, abstract_prompt, attempt,
                                       before_screenshot_path, after_screenshot_path,
                                       rag_examples, screenshots_to_cleanup, fs>>
    /\ UNCHANGED <<build, handler, runs, abstract_prompt_for_saving, kb, attemptsStarted,
                   successAt, launches, process, abstractions, kbInserts, lastUser,
                   verification>>

\* Step 5 (lines 139-157): the screen size is asked, then the code; the call
\* passes cdp_url by name.  An empty result is retried after a pause.
Generate ==
    /\ pc = "generate"
    /\ \E size_ok \in BOOLEAN :
         LET logsNow == Append(logs, "Generating automation code")
         IN  IF ~size_ok
             THEN /\ Abort(logs, screenshots_to_cleanup, fs)
                  /\ UNCHANGED codeGenerated
             ELSE IF ~GenerateCallBinds(handler)
             THEN /\ Abort(logsNow, screenshots_to_cleanup, fs)
                  /\ UNCHANGED codeGenerated
             ELSE \E response \in {Returned(c) : c \in GenResponses}
                                    \cup {Raised("Exception")} :
                    LET code == GenerateAutomationCode(response)
                    IN  IF code.empty
                        THEN /\ logs' = Append(logsNow,
                                               "[ERROR] LLM failed to generate code")
                             /\ Continue
                             /\ UNCHANGED codeGenerated
                             /\ Stay
                             /\ UNCHANGED <<command, max_retries, operation_successful,
                                            abstract_prompt, screenshots_to_cleanup, fs>>
                        ELSE /\ generated_code' = code
                             /\ final_code' = code
                             /\ logs' = Append(logsNow, "[SUCCESS] Code Generated")
                             /\ pc' = "execute"
                             /\ Stay
                             /\ codeGenerated' = TRUE
                             /\ UNCHANGED <<command, max_retries, operation_successful,
                                            launched, abstract_prompt, attempt,
                                            before_screenshot_path,
                                            after_screenshot_path, rag_examples,
                                            screenshots_to_cleanup, fs>>
    /\ UNCHANGED <<build, handler, runs, abstract_prompt_for_saving, kb, attemptsStarted,
                   successAt, launches, process, abstractions, kbInserts, lastUser,
                   verification>>

\* DesktopController.execute_code: the files that exist after the call, by the
\* place where it stopped: opening the script for writing, or starting the
\* process once the script is written and the two logs are open.
ExecuteCodeFiles(r, fsNow) ==
    CASE r = "open raises" -> fsNow
      [] r = "Popen raises" -> fsNow \cup {ScriptFile, OutputLog, ErrorLog}
      [] r = "ok" -> fsNow \cup {ScriptFile, OutputLog, ErrorLog}

\* The names line 163 adds to the tracking list.
ExecutionArtifacts == <<ScriptFile, ErrorLog, OutputLog>>

\* Step 6, the launch (lines 159-164, and 178-181 when execute_code raises).
Execute ==
    /\ pc = "execute"
    /\ \E r \in {"ok", "open raises", "Popen raises"} :
         LET logsNow == Append(logs, "Executing generated code")
         IN  /\ fs' = ExecuteCodeFiles(r, fs)
             /\ IF r = "ok"
                THEN /\ screenshots_to_cleanup' =
                            screenshots_to_cleanup \o ExecutionArtifacts
                     /\ launches' = launches + 1
                     /\ process' = "running"
                     /\ logs' = Append(logsNow, "[SUCCESS] Code execution command sent")
                     /\ launched' = generated_code
                     /\ pc' = "crash"
                     /\ UNCHANGED <<attempt, final_code, generated_code,
                                    before_screenshot_path, after_screenshot_path,
                                    rag_examples>>
                ELSE /\ logs' = Append(logsNow, "[ERROR] Code execution failed to launch")
                     /\ Continue
                     /\ UNCHANGED <<screenshots_to_cleanup, launches, process>>
    /\ UNCHANGED <<build, handler, runs, command, max_retries, operation_successful,
                   abstract_prompt, validation_pending, abstract_prompt_for_saving,
                   kb, outcome, attemptsStarted, successAt, abstractions, codeGenerated, kbInserts,
                   lastUser, cleaned, verification>>

\* The test of lines 168-171: script_error.log exists and what is read from
\* it, stripped, is not empty.
ScriptCrashed(fsNow, content) ==
    LET error_output == Strip(content)
    IN  ErrorLog \in fsNow /\ error_output # <<>>

\* A crash detection that reports the crash and, without `continue`, goes on
\* to the evaluation.
CrashCheckGoingOn ==
    /\ pc = "crash"
    /\ \E content \in ErrorLogContents :
         IF ScriptCrashed(fs, content)
         THEN logs' = logs \o <<"[ERROR] Script crashed", "Retrying...">>
         ELSE logs' = logs
    /\ pc' = "after"
    /\ UNCHANGED <<build, handler, runs, command, max_retries, operation_successful,
                   abstract_prompt, validation_pending, abstract_prompt_for_saving,
                   screenshots_to_cleanup, world, history, attempt, final_code,
                   generated_code, launched, before_screenshot_path,
                   after_screenshot_path, rag_examples>>

\* The detached script ends.  execute_code started it in a session of its own
\* and kept no handle on it (desktop_controller.py lines 93-103): it may end
\* at any time, during the run or after it, or never.
ScriptExits ==
    /\ process = "running"
    /\ process' = "exited"
    /\ UNCHANGED <<build, handler, pc, runs, locals, session, world, outcome,
                   attemptsStarted, successAt, launches, abstractions, codeGenerated,
                   kbInserts, lastUser, cleaned, verification>>

\* A crash detection that first waits for the script to end, as a call of
\* process.wait() would.
CrashCheckWaiting ==
    /\ pc = "crash"
    /\ process = "exited"
    /\ \E content \in ErrorLogContents :
         IF ScriptCrashed(fs, content)
         THEN /\ logs' = logs \o <<"[ERROR] Script crashed", "Retrying...">>
              /\ Continue
         ELSE /\ pc' = "after"
              /\ UNCHANGED <<logs, attempt, final_code, generated_code, launched,
                             before_screenshot_path, after_screenshot_path,
                             rag_examples>>
    /\ UNCHANGED <<build, handler, runs, command, max_retries, operation_successful,
                   abstract_prompt, validation_pending, abstract_prompt_for_saving,
                   screenshots_to_cleanup, world, history>>

\* Step 6, crash detection after the settle interval (lines 165-176): the
\* detached script has written content to script_error.log by then.
CrashCheck ==
    /\ pc = "crash"
    /\ \E content \in ErrorLogContents :
         IF ScriptCrashed(fs, content)
         THEN /\ logs' = logs \o <<"[ERROR] Script crashed", "Retrying...">>
              /\ Continue
         ELSE /\ pc' = "after"
              /\ UNCHANGED <<logs, attempt, final_code, generated_code, launched,
                             before_screenshot_path, after_screenshot_path,
                             rag_examples>>
    /\ UNCHANGED <<build, handler, runs, command, max_retries, operation_successful,
                   abstract_prompt, validation_pending, abstract_prompt_for_saving,
                   screenshots_to_cleanup, world, history>>

\* Step 7, the capture (lines 183-188).
CaptureAfter ==
    /\ pc = "after"
    /\ \E ok \in BOOLEAN :
         LET logsNow == Append(logs, "Capturing 'after' screen")
             shot    == ShotFile("after", runs, attempt)
         IN  IF ok
             THEN /\ logs' = logsNow
                  /\ fs' = fs \cup {shot}
                  /\ after_screenshot_path' = shot
                  /\ screenshots_to_cleanup' = Append(screenshots_to_cleanup, shot)
                  /\ pc' = "verify"
                  /\ Stay
                  /\ UNCHANGED <<command, max_retries, operation_successful,
                                 final_code, generated_code, launched, abstract_prompt, attempt,
                                 before_screenshot_path, rag_examples>>
             ELSE Abort(logsNow, screenshots_to_cleanup, fs)
    /\ UNCHANGED <<build, handler, runs, abstract_prompt_for_saving, kb, attemptsStarted,
                   successAt, launches, process, abstractions, codeGenerated, kbInserts, lastUser, verification>>

\* What text detection on the after-image can do: return text blocks, or raise.
OcrOutcomes ==
    {Returned(r) : r \in OcrResults} \cup {Raised("IndexError"), Raised("Exception")}

\* What the judging call of evaluate_operation can do: answer, or raise.
JudgeOutcomes == {Returned(r) : r \in JudgeResponses} \cup {Raised("Exception")}

\* A verdict applied without the messages of the evaluation reaching the log.
ApplyVerdictUnlogged(is_success, logsNow) ==
    IF is_success
    THEN /\ successAt' = attempt + 1
         /\ Break(TRUE, logs)
    ELSE /\ successAt' = successAt
         /\ logs' = logs
         /\ Continue
         /\ Stay
         /\ UNCHANGED <<command, max_retries, operation_successful,
                        abstract_prompt, screenshots_to_cleanup, fs>>

\* The verdict is applied (lines 235-240, 246-248, 255-260): success sets the
\* flag and breaks out of the loop, failure goes on to the next iteration.
ApplyVerdict(is_success, logsNow) ==
    IF is_success
    THEN /\ successAt' = attempt + 1
         /\ Break(TRUE, logsNow)
    ELSE /\ successAt' = successAt
         /\ logs' = logsNow
         /\ Continue
         /\ Stay
         /\ UNCHANGED <<command, max_retries, operation_successful,
                        abstract_prompt, screenshots_to_cleanup, fs>>

VerdictOf(is_success) == IF is_success THEN "success" ELSE "failure"

\* Step 7, the evaluation (lines 190-260).
Verify ==
    /\ pc = "verify"
    /\ LET typing  == IsTypingTask(command)
           literal == IF final_code.parses THEN ExtractText(final_code.calls)
                      ELSE NoText
           logsOcr == Append(logs, "Performing OCR-based validation")
           logsLit == Append(logsOcr, "Searching for text")
       IN  IF ~typing
           THEN \* lines 250-260
                \E judge \in JudgeOutcomes :
                  LET judged == EvaluateOperation(judge)
                  IN  /\ verification' = Verification(typing, "judge", NoText, NotAsked,
                                                      judge, VerdictOf(judged))
                      /\ ApplyVerdict(judged,
                                      logs \o <<"Asking LLM to evaluate",
                                                IF judged THEN "[SUCCESS] LLM evaluation"
                                                ELSE "[ERROR] LLM evaluation: FAILURE">>)
           ELSE IF ~final_code.parses \/ ~literal.found \/ literal.s = <<>>
           THEN \* ast.parse raises SyntaxError, or line 222 raises ValueError:
                \* neither is an IndexError
                /\ verification' = Verification(typing, "none", literal, NotAsked,
                                                NotAsked, "raised")
                /\ successAt' = successAt
                /\ Abort(logsOcr, screenshots_to_cleanup, fs)
           ELSE \E ocr \in OcrOutcomes :
                  IF ocr.raised = "IndexError"
                  THEN \* lines 242-248
                       \E judge \in JudgeOutcomes :
                         LET judged == EvaluateOperation(judge)
                         IN  /\ verification' = Verification(typing, "judge", literal,
                                                             ocr, judge, VerdictOf(judged))
                             /\ ApplyVerdict(judged,
                                             Append(logsLit,
                                                    "[WARNING] Falling back to LLM"))
                  ELSE IF ocr.raised # "no"
                  THEN /\ verification' = Verification(typing, "none", literal, ocr,
                                                       NotAsked, "raised")
                       /\ successAt' = successAt
                       /\ Abort(logsLit, screenshots_to_cleanup, fs)
                  ELSE \* lines 229-240
                       LET found_text == FoundText(literal.s, ocr.value)
                       IN  /\ verification' = Verification(typing, "literal", literal,
                                                           ocr, NotAsked,
                                                           VerdictOf(found_text))
                           /\ ApplyVerdict(found_text,
                                           Append(logsLit,
                                                  IF found_text
                                                  THEN "[SUCCESS] OCR validation: Found"
                                                  ELSE "[ERROR] OCR validation: Did not find"))
    /\ UNCHANGED <<build, handler, runs, abstract_prompt_for_saving, kb, attemptsStarted,
                   launches, process, abstractions, codeGenerated, kbInserts, lastUser>>

\* RAGHandler.add_successful_automation: the index after the call.  The insert
\* may fail; the method catches the exception and prints it.
AddSuccessfulAutomation(docs, abstract, original, code, insert_ok) ==
    IF insert_ok THEN Append(docs, Document(abstract, original, code)) ELSE docs

\* A "Confirm Success" that, when the handler cannot be built, reports the
\* error and leaves the files and the pending record as they are.
ConfirmSuccessStoppingOnError ==
    /\ pc = "idle"
    /\ validation_pending.set
    /\ \E r \in {"saved", "RAGHandler raises"} :
         LET logsNow == Append(logs, "[SUCCESS] User confirmed SUCCESS")
         IN  IF r = "RAGHandler raises"
             THEN /\ logs' = Append(logsNow, "[ERROR] Failed to save to knowledge base")
                  /\ UNCHANGED <<kb, kbInserts, fs, cleaned, validation_pending>>
             ELSE /\ kb' = AddSuccessfulAutomation(kb, abstract_prompt_for_saving,
                                                   validation_pending.prompt,
                                                   validation_pending.code, TRUE)
                  /\ kbInserts' = kbInserts + 1
                  /\ logs' = Append(logsNow, "[SUCCESS] Saved operation to knowledge base")
                                \o CleanupLogs(screenshots_to_cleanup, fs)
                  /\ fs' = CleanupFs(screenshots_to_cleanup, fs)
                  /\ cleaned' = [called |-> TRUE, files |-> screenshots_to_cleanup]
                  /\ validation_pending' = NoPending
    /\ lastUser' = "confirm"
    /\ UNCHANGED <<build, handler, pc, runs, locals, abstract_prompt_for_saving,
                   screenshots_to_cleanup, outcome, attemptsStarted, successAt,
                   launches, process, abstractions, codeGenerated, verification>>

\* A "Confirm Success" that saves and cleans up and leaves the pending record
\* set.
ConfirmSuccessKeepingPending ==
    /\ pc = "idle"
    /\ validation_pending.set
    /\ \E r \in {"saved", "insert fails", "RAGHandler raises"} :
         LET logsNow == Append(logs, "[SUCCESS] User confirmed SUCCESS")
             said    == IF r = "RAGHandler raises"
                        THEN "[ERROR] Failed to save to knowledge base"
                        ELSE "[SUCCESS] Saved operation to knowledge base"
         IN  /\ IF r = "RAGHandler raises"
                THEN UNCHANGED <<kb, kbInserts>>
                ELSE /\ kb' = AddSuccessfulAutomation(kb, abstract_prompt_for_saving,
                                                      validation_pending.prompt,
                                                      validation_pending.code,
                                                      r = "saved")
                     /\ kbInserts' = kbInserts + 1
             /\ logs' = Append(logsNow, said)
                           \o CleanupLogs(screenshots_to_cleanup, fs)
    /\ fs' = CleanupFs(screenshots_to_cleanup, fs)
    /\ cleaned' = [called |-> TRUE, files |-> screenshots_to_cleanup]
    /\ validation_pending' = validation_pending
    /\ lastUser' = "confirm"
    /\ UNCHANGED <<build, handler, pc, runs, locals, abstract_prompt_for_saving,
                   screenshots_to_cleanup, outcome, attemptsStarted, successAt,
                   launches, process, abstractions, codeGenerated, verification>>

\* main_page, "Confirm Success" (lines 307-324).
ConfirmSuccess ==
    /\ pc = "idle"
    /\ validation_pending.set
    /\ \E r \in {"saved", "insert fails", "RAGHandler raises"} :
         LET logsNow == Append(logs, "[SUCCESS] User confirmed SUCCESS")
             said    == IF r = "RAGHandler raises"
                        THEN "[ERROR] Failed to save to knowledge base"
                        ELSE "[SUCCESS] Saved operation to knowledge base"
         IN  /\ IF r = "RAGHandler raises"
                THEN UNCHANGED <<kb, kbInserts>>
                ELSE /\ kb' = AddSuccessfulAutomation(kb, abstract_prompt_for_saving,
                                                      validation_pending.prompt,
                                                      validation_pending.code,
                                                      r = "saved")
                     /\ kbInserts' = kbInserts + 1
             /\ logs' = Append(logsNow, said)
                           \o CleanupLogs(screenshots_to_cleanup, fs)
    /\ fs' = CleanupFs(screenshots_to_cleanup, fs)
    /\ cleaned' = [called |-> TRUE, files |-> screenshots_to_cleanup]
    /\ validation_pending' = NoPending
    /\ lastUser' = "confirm"
    /\ UNCHANGED <<build, handler, pc, runs, locals, abstract_prompt_for_saving,
                   screenshots_to_cleanup, outcome, attemptsStarted, successAt,
                   launches, process, abstractions, codeGenerated, verification>>

\* A "Report Failure" that stores the rejected record before it cleans up.
ReportFailureSaving ==
    /\ pc = "idle"
    /\ validation_pending.set
    /\ kb' = AddSuccessfulAutomation(kb, abstract_prompt_for_saving,
                                     validation_pending.prompt,
                                     validation_pending.code, TRUE)
    /\ kbInserts' = kbInserts + 1
    /\ logs' = Append(logs, "[INFO] User reported FAILURE")
                  \o CleanupLogs(screenshots_to_cleanup, fs)
    /\ fs' = CleanupFs(screenshots_to_cleanup, fs)
    /\ cleaned' = [called |-> TRUE, files |-> screenshots_to_cleanup]
    /\ validation_pending' = NoPending
    /\ lastUser' = "reject"
    /\ UNCHANGED <<build, handler, pc, runs, locals, abstract_prompt_for_saving,
                   screenshots_to_cleanup, outcome, attemptsStarted, successAt,
                   launches, process, abstractions, codeGenerated, verification>>

\* main_page, "Report Failure" (lines 327-331).
ReportFailure ==
    /\ pc = "idle"
    /\ validation_pending.set
    /\ logs' = Append(logs, "[INFO] User reported FAILURE")
                  \o CleanupLogs(screenshots_to_cleanup, fs)
    /\ fs' = CleanupFs(screenshots_to_cleanup, fs)
    /\ cleaned' = [called |-> TRUE, files |-> screenshots_to_cleanup]
    /\ validation_pending' = NoPending
    /\ lastUser' = "reject"
    /\ UNCHANGED <<build, handler, pc, runs, locals, abstract_prompt_for_saving,
                   screenshots_to_cleanup, kb, outcome, attemptsStarted, successAt,
                   launches, process, abstractions, codeGenerated, kbInserts, verification>>

(* ------------------------ build_rag_from_json ------------------------- *)

\* An entry of the JSON file: original_prompt, code, and abstract_prompt when
\* the entry has that key.
Example(original, code, abstract) ==
    [original_prompt |-> original, code |-> code, abstract_prompt |-> abstract]

NoKey == [has |-> FALSE, value |-> <<>>]

Key(v) == [has |-> TRUE, value |-> v]

\* Entries a file may hold: one with its abstract prompt, one without, one
\* without code.
Examples ==
    {Example(CmdType, CodeCopy, Key(<<"D", "o", " ", "i", "t">>)),
     Example(CmdOpen, CodeVar, NoKey),
     Example(CmdOpen, EmptyCode, NoKey)}

\* The files: lists of up to MaxExamples entries.
JsonFiles == UNION {[1..n -> Examples] : n \in 0..MaxExamples}

\* build_rag_from_json, lines 14-33: the handlers are built and the file is
\* loaded; the script returns when the handlers cannot be built or the file
\* does not exist.
BuildStart ==
    /\ build_pc = "off"
    /\ \E r \in {"ok", "handlers raise", "no file"}, file \in JsonFiles :
         IF r = "ok"
         THEN /\ examples' = file
              /\ example_index' = 0
              /\ build_pc' = "loop"
         ELSE /\ build_pc' = "done"
              /\ UNCHANGED <<examples, example_index>>
    /\ UNCHANGED <<handler, pc, runs, locals, session, world, history>>

\* One iteration of the loop over the entries (lines 35-63): an entry without
\* prompt or code is skipped; the abstract prompt is the entry's or the one
\* abstract_user_prompt gives; the entry is added to the index.
BuildExample ==
    /\ build_pc = "loop"
    /\ example_index < Len(examples)
    /\ LET example == examples[example_index + 1]
       IN  IF example.original_prompt = <<>> \/ example.code.empty
           THEN kb' = kb
           ELSE \E insert_ok \in BOOLEAN,
                   response \in {Returned(r) : r \in AbstractResponses}
                                  \cup {Raised("Exception")} :
                  LET abstract ==
                        IF example.abstract_prompt.has
                        THEN example.abstract_prompt.value
                        ELSE AbstractUserPrompt(example.original_prompt, response)
                  IN  kb' = AddSuccessfulAutomation(kb, abstract,
                                                    example.original_prompt,
                                                    example.code, insert_ok)
    /\ example_index' = example_index + 1
    /\ UNCHANGED <<handler, pc, runs, locals, session, fs, history, build_pc,
                   examples>>

\* The loop is over (lines 65-66).
BuildFinish ==
    /\ build_pc = "loop"
    /\ example_index = Len(examples)
    /\ build_pc' = "done"
    /\ UNCHANGED <<handler, pc, runs, locals, session, world, history, examples,
                   example_index>>

(* --------------------------- specification ---------------------------- *)

Next ==
    \/ \E cmd \in Commands : RunAutomation(cmd)
    \/ Initialize
    \/ Abstract
    \/ LoopHead
    \/ CaptureBefore
    \/ RagSearch
    \/ Generate
    \/ Execute
    \/ CrashCheck
    \/ CaptureAfter
    \/ Verify
    \/ ConfirmSuccess
    \/ ReportFailure

Spec == Init /\ [][Next]_vars

\* The script build_rag_from_json.py, run from the command line.
NextBuild ==
    \/ BuildStart
    \/ BuildExample
    \/ BuildFinish

SpecBuild == Init /\ [][NextBuild]_vars

\* The application on an index that may already hold documents.
SpecSeeded == InitSeeded /\ [][Next]_vars

\* The steps of run_automation_flow.
FlowStep ==
    \/ Initialize
    \/ Abstract
    \/ LoopHead
    \/ CaptureBefore
    \/ RagSearch
    \/ Generate
    \/ Execute
    \/ CrashCheck
    \/ CaptureAfter
    \/ Verify

\* The application with the detached script followed to its end, for up to
\* MaxLiveRuns presses of "Run Automation".
NextLive ==
    \/ /\ runs < MaxLiveRuns
       /\ \E cmd \in Commands : RunAutomation(cmd)
    \/ FlowStep
    \/ ScriptExits
    \/ ConfirmSuccess
    \/ ReportFailure

\* run_automation_flow is sequential code: once called it keeps taking steps,
\* every adapter call it makes returning or raising.  Nothing is assumed of
\* the user, nor of the detached script, which may run forever.
SpecLive == InitSeeded /\ [][NextLive]_vars /\ WF_vars(FlowStep)

(* ----------------------------- properties ----------------------------- *)

\* C1: add_successful_automation is invoked only by a Confirm on a pending
\* record: while the session has not been confirmed (it is running, it ended
\* failed or aborted, or its pending record was rejected) the number of
\* invocations since the session began is zero, and a confirmed session has
\* exactly one.
KnowledgeWrittenOnlyOnConfirm ==
    /\ kbInserts > 0 => lastUser = "confirm" /\ outcome = "pending" /\ kbInserts = 1
    /\ outcome \in {"failed", "aborted"} => kbInserts = 0
    /\ lastUser = "reject" => kbInserts = 0

\* A confirmed session whose record was inserted into the index.
ConfirmWroteEntry ==
    /\ lastUser = "confirm"
    /\ kbInserts = 1
    /\ Len(kb) = 1
    /\ ~validation_pending.set

\* C2: the number of loop iterations a run has entered never exceeds its
\* max_retries, which is 3 when the configuration has no such key.
AttemptsWithinBudget ==
    /\ MaxRetriesOf([has |-> FALSE, value |-> 0]) = 3
    /\ pc \notin {"idle", "init", "abstract"} =>
          /\ attemptsStarted <= max_retries
          /\ max_retries \in {MaxRetriesOf(cfg) : cfg \in ConfigRetries}
    /\ attemptsStarted <= 3 \/ attemptsStarted <= MaxCfgRetries

\* The default budget of 3 used up: the loop is at its head after the third
\* iteration.
DefaultBudgetExhausted ==
    /\ pc = "loop"
    /\ max_retries = 3
    /\ attempt = 3
    /\ attemptsStarted = 3

\* C3: once an iteration's verification gave Success, the run has left the
\* loop: it has returned, the iterations entered are exactly those up to the
\* successful one, and no script was launched after it.
SuccessStopsLoop ==
    successAt # 0 =>
        /\ pc = "idle"
        /\ outcome = "pending"
        /\ attemptsStarted = successAt
        /\ launches <= successAt
        /\ verification.verdict = "success"

\* A Success verdict in the second iteration of a session.
SuccessAtSecondAttempt ==
    /\ successAt = 2
    /\ attemptsStarted = 2
    /\ verification.verdict = "success"

\* C4: with generate_automation_code as src/llm_handler.py declares it, a
\* typing session at the generation step of its first iteration can get code
\* that copies a literal and go on to execute it.
PendingReachableAtFirstAttempt ==
    (handler = "src" /\ pc = "generate" /\ attempt = 0 /\ IsTypingTask(command)) =>
        ENABLED (Generate /\ pc' = "execute" /\ final_code' = CodeCopy)

\* C5: a session is aborted only by an error raised outside the retry loop,
\* that is, before any iteration was entered.
AbortOnlyOutsideLoop ==
    outcome = "aborted" => attemptsStarted = 0

TrimmedCaselessSubstring(literal, block) ==
    Contains(Lower(Strip(block)), Lower(Strip(literal)))

JudgeVerdictIffSuccessWord ==
    verification.strategy = "judge" =>
        /\ verification.verdict = "success" <=>
              /\ verification.judge.raised = "no"
              /\ Contains(Lower(verification.judge.value), Lower(SUCCESS))
        /\ verification.judge.raised # "no" => verification.verdict = "failure"
        /\ verification.verdict = "failure" =>
              \/ pc = "loop"
              \/ pc = "idle" /\ outcome = "failed"
        /\ verification.verdict = "success" => pc = "idle" /\ outcome = "pending"

\* The judge answered " success\n" and that was taken as Success.
JudgeLowercaseSuccess ==
    /\ verification.strategy = "judge"
    /\ verification.judge.raised = "no"
    /\ verification.judge.value # SUCCESS
    /\ verification.verdict = "success"

AbortCleansUp ==
    outcome = "aborted" =>
        /\ pc = "idle"
        /\ "[ERROR] A critical error occurred" \in Range(logs)
        /\ cleaned.called
        /\ cleaned.files = screenshots_to_cleanup
        /\ fs \cap Range(screenshots_to_cleanup) = {}
        /\ ~validation_pending.set

\* A session aborted inside the loop after files were tracked.
AbortedWithTrackedFiles ==
    /\ outcome = "aborted"
    /\ attemptsStarted >= 1
    /\ Len(screenshots_to_cleanup) >= 4
    /\ cleaned.called

\* C11: after Confirm or Reject, whatever the knowledge base did, cleanup has
\* been called with the session's tracking list, none of those files is left,
\* and no pending record is set.
GateResolutionCleansAndClears ==
    lastUser \in {"confirm", "reject"} =>
        /\ pc = "idle"
        /\ ~validation_pending.set
        /\ cleaned.called
        /\ cleaned.files = screenshots_to_cleanup
        /\ fs \cap Range(screenshots_to_cleanup) = {}

\* A Confirm whose RAGHandler could not be built, resolved all the same: the
\* tracked files (five or more) are gone and nothing is pending.
ConfirmResolvedDespiteError ==
    /\ lastUser = "confirm"
    /\ "[ERROR] Failed to save to knowledge base" \in Range(logs)
    /\ Len(screenshots_to_cleanup) >= 5
    /\ cleaned.called
    /\ ~validation_pending.set

OnlyConfirmWritesEntries ==
    [][kb' # kb => (validation_pending.set /\ lastUser' = "confirm")]_vars

AnsweredAbstracts ==
    {AbstractUserPrompt(<<>>, Returned(r)) : r \in AbstractResponses}

\* What abstract_user_prompt can give for an instruction: an answer, or what
\* it gives when the call raises.
AbstractsOf(instruction) ==
    AnsweredAbstracts \cup {AbstractUserPrompt(instruction, Raised("Exception"))}

\* C16: a run calls abstract_user_prompt once, before its first iteration;
\* through the loop the retrieval key is that value and it is the one kept
\* for saving; a pending record's key, and the key of every stored document,
\* is an abstract of the instruction it goes with.
AbstractKeyOfOwnSession ==
    /\ abstractions <= 1
    /\ attemptsStarted >= 1 => abstractions = 1
    /\ pc \in {"loop", "before", "rag", "generate", "execute", "crash", "after",
               "verify"} =>
          /\ abstractions = 1
          /\ abstract_prompt = abstract_prompt_for_saving
          /\ abstract_prompt \in AbstractsOf(command)
    /\ validation_pending.set =>
          abstract_prompt_for_saving \in AbstractsOf(validation_pending.prompt)
    /\ \A i \in 1..Len(kb) : kb[i].text \in AbstractsOf(kb[i].original_prompt)

\* Two confirmed sessions with different instructions; the second stored its
\* own instruction as key (its abstraction call had failed).
SecondSessionStoredOwnKey ==
    /\ runs = 2
    /\ lastUser = "confirm"
    /\ Len(kb) = 2
    /\ kb[1].original_prompt # kb[2].original_prompt
    /\ kb[2].text = kb[2].original_prompt

\* C17: the step that sets the pending record is a verification with verdict
\* Success, and the record holds the run's instruction and the code that this
\* iteration generated and gave to execute_code; a step that changes the index
\* appends a document with exactly the pending record's instruction and code.
PendingCarriesSuccessfulCode ==
    [][/\ (~validation_pending.set /\ validation_pending'.set) =>
            /\ pc = "verify"
            /\ verification'.verdict = "success"
            /\ validation_pending'.prompt = command
            /\ ~launched.empty
            /\ launched = generated_code
            /\ validation_pending'.code = launched
       /\ kb' # kb =>
            kb' = Append(kb, Document(abstract_prompt_for_saving,
                                      validation_pending.prompt,
                                      validation_pending.code))]_vars

\* A session that succeeded at its second iteration and was confirmed: the
\* stored document holds the typing instruction and the code that copies the
\* literal.
ConfirmedAfterRetryStoredCode ==
    /\ lastUser = "confirm"
    /\ successAt = 2
    /\ Len(kb) = 1
    /\ kb[1].original_prompt = CmdType
    /\ kb[1].python_code = CodeCopy

\* The literal payload of the instruction CmdType: the text to be typed.
TypedPayload == <<"h", "i">>

\* C18: through the loop of a session whose instruction is CmdType, the
\* abstract prompt (retrieval key, and key kept for saving) does not contain
\* the payload of the instruction.
AbstractKeyHasNoPayload ==
    (command = CmdType /\ pc \in {"loop", "before", "rag", "generate"}) =>
        /\ ~Contains(abstract_prompt, TypedPayload)
        /\ ~Contains(abstract_prompt_for_saving, TypedPayload)

\* C19: abstract_user_prompt gives the raw instruction when its call raises;
\* after step 2 the run is at the head of the loop with the answer or the raw
\* instruction as key, and a session aborted before its first iteration was
\* aborted before step 2, not by it.
AbstractionFailureFallsBack ==
    /\ pc # "idle" => AbstractUserPrompt(command, Raised("Exception")) = command
    /\ (abstractions = 1 /\ attemptsStarted = 0) =>
          /\ pc = "loop"
          /\ outcome = "none"
          /\ abstract_prompt \in {command} \cup {Strip(r) : r \in AbstractResponses}
          /\ abstract_prompt # <<>>
    /\ (outcome = "aborted" /\ attemptsStarted = 0) => abstractions = 0

\* The loop about to start with the raw instruction as key.
LoopEnteredWithRawKey ==
    /\ pc = "loop"
    /\ attemptsStarted = 0
    /\ abstractions = 1
    /\ command = CmdOpen
    /\ abstract_prompt = command

\* C20: on the tracking list of any reachable state, with its duplicates and
\* its files already removed, cleanup_temp_files raises nothing, a second call
\* on the same list raises nothing and changes nothing, and so does a call on
\* the list written twice.
CleanupIsIdempotent ==
    LET files   == screenshots_to_cleanup
        first   == CleanupTempFiles(files, fs)
        second  == CleanupTempFiles(files, first.fs)
        doubled == CleanupTempFiles(files \o files, fs)
    IN  /\ ~first.raised
        /\ ~second.raised
        /\ second.fs = first.fs
        /\ ~doubled.raised
        /\ doubled.fs = first.fs
        /\ first.fs \cap Range(files) = {}

\* A cleaned-up session whose list names the script and the logs twice (two
\* launches), all already removed, while an untracked file is still there.
CleanedListWithDuplicates ==
    /\ cleaned.called
    /\ launches = 2
    /\ \E i, j \in 1..Len(screenshots_to_cleanup) :
          i < j /\ screenshots_to_cleanup[i] = screenshots_to_cleanup[j]
    /\ fs \cap Range(screenshots_to_cleanup) = {}
    /\ fs # {}

\* The before-images of the first n iterations of run r, in the order taken.
BeforeShots(r, n) == [i \in 1..n |-> [kind |-> "before", id |-> <<r, i - 1>>]]

\* C21: while no generation of a run has returned code, no script has been
\* launched; and the step that ends such a run as failed is taken after
\* exactly max_retries iterations, writes nothing to the index, sets no
\* pending record, and calls the cleanup with the before-image of every
\* iteration, after which none of them exists.
EmptyGenerationsExhaustBudget ==
    [][/\ ~codeGenerated => launches = 0
       /\ (outcome # "failed" /\ outcome' = "failed" /\ ~codeGenerated) =>
            /\ pc = "loop" /\ pc' = "idle"
            /\ attemptsStarted = max_retries
            /\ launches' = 0
            /\ kb' = kb /\ kbInserts' = 0
            /\ ~validation_pending'.set
            /\ screenshots_to_cleanup = BeforeShots(runs, max_retries)
            /\ cleaned' = [called |-> TRUE, files |-> screenshots_to_cleanup]
            /\ fs' \cap Range(screenshots_to_cleanup) = {}]_vars

\* A run with the default budget that ended failed after three iterations
\* whose generation was empty: the three before-images went to the cleanup.
ThreeEmptyGenerationsFailed ==
    /\ outcome = "failed"
    /\ ~codeGenerated
    /\ attemptsStarted = 3
    /\ launches = 0
    /\ kb = <<>>
    /\ cleaned.called
    /\ cleaned.files = BeforeShots(runs, 3)
    /\ fs \cap Range(cleaned.files) = {}

\* C22: at the crash check the error log of the launch exists, and any content
\* that is not empty once stripped counts as a crash; an iteration in which
\* the crash was reported has ended (the run is at the head of the loop, or
\* has ended failed) without an after-image, without a verification and
\* without a Success verdict.
ScriptCrashEndsAttempt ==
    /\ pc = "crash" =>
          /\ ErrorLog \in fs
          /\ \A content \in ErrorLogContents :
                Strip(content) # <<>> => ScriptCrashed(fs, content)
    /\ "[ERROR] Script crashed" \in Range(logs) =>
          /\ pc = "loop" \/ (pc = "idle" /\ outcome = "failed")
          /\ "Capturing 'after' screen" \notin Range(logs)
          /\ \A f \in fs \cup Range(screenshots_to_cleanup) :
                ~(f.kind = "after" /\ f.id = <<runs, attemptsStarted - 1>>)
          /\ verification = NoVerification
          /\ successAt = 0
          /\ ~validation_pending.set

\* A crash reported in the second iteration of a run, after a first iteration
\* that was verified: the run is back at the head of the loop.
CrashedSecondAttempt ==
    /\ pc = "loop"
    /\ attempt = 2
    /\ launches = 2
    /\ "[ERROR] Script crashed" \in Range(logs)
    /\ [kind |-> "after", id |-> <<runs, 0>>] \in fs

\* The messages of the steps an iteration goes through once.
StepMessages ==
    {"--- Attempt", "Capturing 'before' screen",
     "Searching for similar successful examples", "Generating automation code",
     "Executing generated code", "Capturing 'after' screen",
     "Performing OCR-based validation", "Asking LLM to evaluate"}

\* The messages of the retryable conditions.
RetryMessages ==
    {"[ERROR] LLM failed to generate code", "[ERROR] Code execution failed to launch",
     "[ERROR] Script crashed", "[ERROR] OCR validation: Did not find",
     "[ERROR] LLM evaluation: FAILURE"}

\* The messages that an iteration logs at most once.
CountedMessages == StepMessages \cup RetryMessages

\* C23: at the head of the loop the iterations ended by a retryable condition
\* are as many as the iterations entered, and inside an iteration one fewer;
\* an iteration that reported a retryable condition has ended; no step of an
\* iteration has run twice; at most one script was launched per iteration.
RetryConsumesOneAttempt ==
    /\ pc = "loop" => attempt = attemptsStarted
    /\ pc \in {"before", "rag", "generate", "execute", "crash", "after", "verify"} =>
          attemptsStarted = attempt + 1
    /\ Range(logs) \cap RetryMessages # {} =>
          pc = "loop" \/ (pc = "idle" /\ outcome = "failed")
    /\ \A i \in 1..Len(logs) :
          logs[i] \in CountedMessages =>
              \A j \in (i + 1)..Len(logs) : logs[i] # logs[j]
    /\ launches <= attemptsStarted

\* Three iterations ended by three different conditions: a Failure verdict
\* (the first iteration has its after-image), a crash (the second launch left
\* no after-image), an empty generation.
ThreeConditionsThreeAttempts ==
    /\ pc = "loop"
    /\ attempt = 3
    /\ launches = 2
    /\ [kind |-> "after", id |-> <<runs, 0>>] \in fs
    /\ [kind |-> "after", id |-> <<runs, 1>>] \notin fs
    /\ "[ERROR] LLM failed to generate code" \in Range(logs)

\* The instruction contains one of the typing keywords, in any letter case.
TypingIntent(instruction) ==
    \E k \in TypingKeywords :
        \E i \in 0..(Len(instruction) - Len(k)) :
            \A j \in 1..Len(k) : UpperChar(instruction[i + j]) = UpperChar(k[j])

\* The keyword scan of the program agrees with it on every instruction.
KeywordScanIsCaseless == \A cmd \in Commands : IsTypingTask(cmd) = TypingIntent(cmd)

\* C24: in every iteration that reached the evaluation, the branch taken is
\* the text-detection branch exactly when the run's instruction contains a
\* typing keyword, whatever the iteration, the code and the images; the two
\* branches are never both entered; the literal match gives a verdict only in
\* the text-detection branch, and the other branch asks the judge alone.
StrategyChosenByInstruction ==
    /\ (verification # NoVerification /\ pc # "idle") =>
          verification.typing = TypingIntent(command)
    /\ (verification # NoVerification /\ validation_pending.set) =>
          verification.typing = TypingIntent(validation_pending.prompt)
    /\ ~("Performing OCR-based validation" \in Range(logs)
           /\ "Asking LLM to evaluate" \in Range(logs))
    /\ verification.strategy = "literal" => verification.typing
    /\ (verification # NoVerification /\ ~verification.typing) =>
          /\ verification.strategy = "judge"
          /\ verification.literal = NoText
          /\ verification.ocr = NotAsked
    /\ KeywordScanIsCaseless

\* A typing session whose first and second iterations both reached the
\* evaluation; the second got its verdict from the literal match.
LiteralMatchInSecondAttempt ==
    /\ pc = "loop"
    /\ attempt = 2
    /\ command = CmdType
    /\ verification.typing
    /\ verification.strategy = "literal"
    /\ [kind |-> "after", id |-> <<runs, 0>>] \in fs
    /\ [kind |-> "after", id |-> <<runs, 1>>] \in fs
    /\ launches = 2

\* The step messages of an iteration up to the evaluation, in program order.
AttemptSteps ==
    <<"--- Attempt", "Capturing 'before' screen",
      "Searching for similar successful examples", "Generating automation code",
      "Executing generated code", "Capturing 'after' screen">>

AttemptStepSet == Range(AttemptSteps)

\* How many of them an iteration at step p has logged (the settle interval
\* and the crash check log nothing when the script did not crash).
StepsDone(p) ==
    CASE p = "before" -> 1 [] p = "rag" -> 2 [] p = "generate" -> 3
      [] p = "execute" -> 4 [] p = "crash" -> 5 [] p = "after" -> 5
      [] p = "verify" -> 6

\* The step messages of a log, in the order logged.
StepsLogged(log) == SelectSeq(log, LAMBDA m : m \in AttemptStepSet)

\* C25: the steps an iteration has taken are, in this order, before-capture,
\* retrieval, generation, launch, (settle and crash check,) after-capture;
\* an evaluation took place only after all of them; and at the evaluation of
\* iteration k the code read is the code generated and launched in iteration
\* k, and the two images passed are the files iteration k of this run saved.
AttemptStepsInOrder ==
    /\ pc \in {"before", "rag", "generate", "execute", "crash", "after", "verify"} =>
          StepsLogged(logs) = SubSeq(AttemptSteps, 1, StepsDone(pc))
    /\ pc = "loop" =>
          \E n \in 0..Len(AttemptSteps) : StepsLogged(logs) = SubSeq(AttemptSteps, 1, n)
    /\ verification # NoVerification => StepsLogged(logs) = AttemptSteps
    /\ pc \in {"crash", "after", "verify"} =>
          /\ ~generated_code.empty
          /\ launched = generated_code
          /\ final_code = generated_code
    /\ pc = "verify" =>
          /\ before_screenshot_path = [kind |-> "before", id |-> <<runs, attempt>>]
          /\ after_screenshot_path = [kind |-> "after", id |-> <<runs, attempt>>]
          /\ {before_screenshot_path, after_screenshot_path} \subseteq fs

\* The evaluation of a second iteration, while the images of the first
\* iteration are still on disk.
SecondAttemptAtEvaluation ==
    /\ pc = "verify"
    /\ attempt = 1
    /\ final_code = CodeCopy
    /\ [kind |-> "before", id |-> <<runs, 0>>] \in fs
    /\ [kind |-> "after", id |-> <<runs, 0>>] \in fs
    /\ after_screenshot_path \in fs

\* The messages that report why an iteration did not succeed: the retryable
\* conditions, and the warning of the fallback to the judge.
FailureMessages == RetryMessages \cup {"[WARNING] Falling back to LLM"}

\* C26: an iteration that ended without success has, before the next one
\* starts, at least one message in the log that reports it; a run that ended
\* failed has logged that the automation failed, and an aborted run has
\* logged the critical error, before control is back with the caller.
FailurePathsLog ==
    /\ (pc = "loop" /\ attempt >= 1) => Range(logs) \cap FailureMessages # {}
    /\ outcome = "failed" =>
          /\ pc = "idle"
          /\ "[ERROR] Automation failed after all retries" \in Range(logs)
    /\ outcome = "aborted" =>
          /\ pc = "idle"
          /\ "[ERROR] A critical error occurred" \in Range(logs)

\* An iteration whose fallback to the judge gave Failure: the warning is its
\* only report, the judge's Failure itself has no message.
FallbackFailureOnlyWarned ==
    /\ pc = "loop"
    /\ attempt >= 1
    /\ verification.strategy = "judge"
    /\ verification.typing
    /\ verification.verdict = "failure"
    /\ "[WARNING] Falling back to LLM" \in Range(logs)
    /\ Range(logs) \cap RetryMessages = {}

\* C27: the examples a retrieval gave to the iteration are at most top_k = 2,
\* each with an instruction and with code; the log says that none was found
\* exactly when there is none; on an empty index the retrieval gives no
\* example and cannot abort the run; and with no example the iteration is at
\* the generation step all the same.
RetrievalGivesAtMostTopK ==
    /\ TopK = 2
    /\ pc \in {"generate", "execute", "crash", "after", "verify"} =>
          /\ Len(rag_examples) <= TopK
          /\ \A i \in 1..Len(rag_examples) :
                rag_examples[i].prompt # <<>> /\ ~rag_examples[i].code.empty
          /\ "[INFO] No similar examples found" \in Range(logs) <=> rag_examples = <<>>
          /\ "[INFO] Found relevant example(s)" \in Range(logs) <=> rag_examples # <<>>
          /\ kb = <<>> => rag_examples = <<>>
    /\ (pc = "rag" /\ kb = <<>>) =>
          /\ ~ENABLED (RagSearch /\ outcome' = "aborted")
          /\ ENABLED (RagSearch /\ pc' = "generate" /\ rag_examples' = <<>>)

\* A retrieval on an index of four documents, three of them usable, gave two
\* examples to the generation step.
TwoExamplesFromLargerIndex ==
    /\ pc = "generate"
    /\ Len(kb) > TopK
    /\ Len(rag_examples) = TopK

\* C28: a pending record is set exactly when the run has returned and one of
\* its iterations got a Success verdict; such a run is neither failed nor
\* aborted; a failed or aborted run has no Success verdict and leaves no
\* pending record, of its own or of the run before, so Confirm cannot be
\* pressed.
SessionOutcomesExclusive ==
    /\ validation_pending.set =>
          /\ pc = "idle"
          /\ outcome = "pending"
          /\ successAt # 0
          /\ verification.verdict = "success"
    /\ (pc = "idle" /\ lastUser = "run") =>
          /\ outcome \in {"pending", "failed", "aborted"}
          /\ validation_pending.set <=> successAt # 0
          /\ outcome = "pending" <=> successAt # 0
    /\ outcome \in {"failed", "aborted"} =>
          /\ successAt = 0
          /\ ~validation_pending.set
          /\ ~ENABLED ConfirmSuccess

\* A second run that ended failed after the first run had ended pending and
\* was neither confirmed nor rejected (its after-image is still on disk).
FailedAfterUnresolvedPending ==
    /\ runs = 2
    /\ pc = "idle"
    /\ outcome = "failed"
    /\ [kind |-> "after", id |-> <<1, 0>>] \in fs
    /\ ~validation_pending.set

\* C29: a session writes to the index at most once: the documents never
\* outnumber the runs, and once Confirm or Report Failure has been processed
\* no record is pending, so neither button can act again until another run
\* has set a record.
OneWritePerSession ==
    /\ kbInserts <= 1
    /\ Len(kb) <= runs
    /\ lastUser \in {"confirm", "reject"} =>
          /\ ~validation_pending.set
          /\ ~ENABLED ConfirmSuccess
          /\ ~ENABLED ReportFailure

\* Two sessions, each confirmed once: two documents, nothing pending.
TwoSessionsTwoEntries ==
    /\ runs = 2
    /\ lastUser = "confirm"
    /\ kbInserts = 1
    /\ Len(kb) = 2
    /\ ~validation_pending.set

\* C30: while a record is pending the run has not called the cleanup and
\* every tracked file (the images, the script and its two logs) is still
\* there; in a session that ended pending the cleanup is called only by
\* Confirm or Report Failure, with the session's tracking list.
PendingKeepsArtifacts ==
    /\ validation_pending.set =>
          /\ cleaned = NotCleaned
          /\ Len(screenshots_to_cleanup) >= 5
          /\ Range(screenshots_to_cleanup) \subseteq fs
          /\ "Cleaning up" \notin Range(logs)
    /\ (outcome = "pending" /\ cleaned.called) =>
          /\ lastUser \in {"confirm", "reject"}
          /\ cleaned.files = screenshots_to_cleanup

\* A record pending after a success at the second iteration: the ten tracked
\* files of the two iterations are all on disk.
PendingWithTwoAttemptsTracked ==
    /\ validation_pending.set
    /\ successAt = 2
    /\ Len(screenshots_to_cleanup) = 10
    /\ Range(screenshots_to_cleanup) \subseteq fs

\* The steps of an iteration that follow a launch.
AfterLaunch == {"crash", "after", "verify"}

\* The number of times message m occurs in a log.
Occurrences(log, m) == Len(SelectSeq(log, LAMBDA x : x = m))

\* C31: execute_code is reached only with non-empty generated code, and the
\* code it was given is that code; the iteration under way has launched at
\* most one script, so the scripts launched by the run are at most the
\* iterations ended plus the one of the iteration under way, and never more
\* than the iterations entered; an iteration whose generation was empty did
\* not reach the launch.
ScriptLaunchedOncePerAttempt ==
    /\ pc = "execute" => ~generated_code.empty
    /\ pc \in AfterLaunch => ~launched.empty /\ launched = generated_code
    /\ pc \notin AfterLaunch => launched.empty
    /\ pc \in {"loop", "before", "rag", "generate", "execute"} => launches <= attempt
    /\ pc \in AfterLaunch => launches <= attempt + 1
    /\ launches <= attemptsStarted
    /\ Occurrences(logs, "[SUCCESS] Code execution command sent") <= 1
    /\ "[ERROR] LLM failed to generate code" \in Range(logs) =>
          /\ "Executing generated code" \notin Range(logs)
          /\ "[SUCCESS] Code execution command sent" \notin Range(logs)
          /\ launches < attemptsStarted

\* The third iteration of a run has just launched the second script of the
\* run: the first iteration launched one and was evaluated, the second one
\* launched nothing.
ThirdAttemptSecondLaunch ==
    /\ pc = "crash"
    /\ attempt = 2
    /\ launches = 2
    /\ ~launched.empty
    /\ [kind |-> "after", id |-> <<runs, 0>>] \in fs
    /\ [kind |-> "after", id |-> <<runs, 1>>] \notin fs

\* What the user sees when run_automation_flow has returned: the pending
\* record of step 8, the failure report of step 8, the report of the handler
\* of line 270.
PendingConfirmation == validation_pending.set

ReportedFailed == "[ERROR] Automation failed after all retries" \in Range(logs)

ReportedAborted == "[ERROR] A critical error occurred" \in Range(logs)

\* run_automation_flow has returned in exactly one of the three ways.
Terminated ==
    /\ pc = "idle"
    /\ lastUser = "run"
    /\ \/ PendingConfirmation /\ ~ReportedFailed /\ ~ReportedAborted
       \/ ~PendingConfirmation /\ ReportedFailed /\ ~ReportedAborted
       \/ ~PendingConfirmation /\ ~ReportedFailed /\ ReportedAborted

\* C32: a run of run_automation_flow that has been started eventually
\* returns, with exactly one of the pending record, the failure report and
\* the critical-error report, whatever the instruction and whatever the
\* adapters return or raise, and whether or not the detached script ever
\* ends; a run that has returned and has not been followed by another press
\* shows exactly one of the three.
RunTerminates ==
    /\ (pc # "idle") ~> Terminated
    /\ [](pc = "idle" /\ lastUser = "run" => Terminated)

\* A run that returned with a pending record after two launches while the
\* script of its second launch is still running.
PendingWhileScriptRuns ==
    /\ Terminated
    /\ PendingConfirmation
    /\ launches = 2
    /\ process = "running"

====
